---- MODULE Spec2Model ----
(***************************************************************************)
(* Recipe costing engine of prepper-sm:                                    *)
(*   backend/app/domain/costing_service.py  (CostingService)               *)
(* The recursive walker calculate_recipe_cost is modelled as a call stack  *)
(* of frames, one step per block of the function; persist_cost_snapshot    *)
(* is the walker followed by one write step.  Floats are modelled as exact *)
(* rationals <<numerator, denominator>>; None is the empty tuple, and a     *)
(* returned CostingResult r is the one-element tuple <<r>>.                *)
(* The tables are read at the step that uses them; no action of this model *)
(* changes lines, links or yields, so this equals the lists the code       *)
(* fetches once per call (lines 105 and 149).  The first assignment to     *)
(* batch_fraction (line 67) is overwritten on line 70 and is left out.     *)
(***************************************************************************)
EXTENDS Integers, Sequences, FiniteSets, TLC

\* ------------------------------------------------------------------ bounds
NRecipes == 4
MaxDepthArg == 3
MaxClock == 2

\* ------------------------------------------------------- program constants
DefaultMaxDepth == 20

\* ------------------------------------------------------------- arithmetic
None == <<>>

Abs(n) == IF n < 0 THEN -n ELSE n

RECURSIVE GCD(_, _)
GCD(a, b) == IF b = 0 THEN a ELSE GCD(b, a % b)

Norm(n, d) ==
    LET g == GCD(Abs(n), d) IN
    IF n = 0 THEN <<0, 1>> ELSE <<n \div g, d \div g>>

R(n) == <<n, 1>>
Frac(n, d) == Norm(n, d)

RAdd(x, y) == Norm(x[1] * y[2] + y[1] * x[2], x[2] * y[2])
RMul(x, y) == Norm(x[1] * y[1], x[2] * y[2])
RDiv(x, y) ==
    IF y[1] > 0 THEN Norm(x[1] * y[2], x[2] * y[1])
    ELSE Norm((0 - x[1]) * y[2], x[2] * (0 - y[1]))
RPos(x) == x[1] > 0
RZero(x) == x[1] = 0

\* ------------------------------------------------------------- the stores
RecipeIds == 1 .. NRecipes
AbsentId == NRecipes + 1
AllIds == 1 .. AbsentId

Names == [r \in AllIds |->
            IF r = 1 THEN "A" ELSE IF r = 2 THEN "B" ELSE IF r = 3 THEN "C"
            ELSE IF r = 4 THEN "D" ELSE "E"]

IngredientNames == <<"Flour", "Sugar">>

Recipe(r, y, cp) ==
    [name |-> Names[r], yield_quantity |-> y, cost_price |-> cp, updated_at |-> 0]

RecipeIngredient(ing, q, u, bu, up) ==
    [ingredient_id |-> ing, quantity |-> q, unit |-> u, base_unit |-> bu,
     unit_price |-> up]

RecipeRecipe(parent, pos, child, q, u) ==
    [id |-> parent * 10 + pos, child_recipe_id |-> child, quantity |-> q,
     unit |-> u]

\* app.utils.unit_conversion.convert_to_base_unit: the converted quantity,
\* or None when the units are not compatible.
convert_to_base_unit(q, from_unit, to_unit) ==
    IF from_unit = to_unit THEN q
    ELSE IF from_unit = "kg" /\ to_unit = "g" THEN RMul(q, R(1000))
    ELSE IF from_unit = "l" /\ to_unit = "ml" THEN RMul(q, R(1000))
    ELSE IF from_unit = "g" /\ to_unit = "kg" THEN RDiv(q, R(1000))
    ELSE IF from_unit = "ml" /\ to_unit = "l" THEN RDiv(q, R(1000))
    ELSE None

\* ------------------------------------------------- the stores Init draws
Ing == [Flour |-> 1, Sugar |-> 2, Absent |-> 3]

LineKinds ==
    {"priced", "none", "unpriced", "mixed", "conv_fail", "kg", "zero",
     "orphan", "test_bread"}

Lines(kind) ==
    IF kind = "priced" THEN <<RecipeIngredient(Ing.Flour, R(2), "g", "g", R(3))>>
    ELSE IF kind = "unpriced" THEN
        <<RecipeIngredient(Ing.Sugar, R(2), "g", "g", None)>>
    ELSE IF kind = "mixed" THEN
        <<RecipeIngredient(Ing.Flour, R(2), "g", "g", R(3)),
          RecipeIngredient(Ing.Sugar, R(2), "g", "g", None)>>
    ELSE IF kind = "conv_fail" THEN
        <<RecipeIngredient(Ing.Sugar, R(1), "pcs", "g", R(3))>>
    ELSE IF kind = "kg" THEN
        <<RecipeIngredient(Ing.Sugar, R(1), "kg", "g", Frac(1, 1000))>>
    ELSE IF kind = "zero" THEN
        <<RecipeIngredient(Ing.Flour, R(0), "g", "g", R(3))>>
    ELSE IF kind = "orphan" THEN
        <<RecipeIngredient(Ing.Absent, R(2), "g", "g", R(3))>>
    ELSE IF kind = "test_bread" THEN
        <<RecipeIngredient(Ing.Flour, R(500), "g", "g", Frac(2, 1000))>>
    ELSE <<>>

LinkUnits == {"portion", "batch", "g", "ml", "kg"}
Yields == {R(0 - 1), R(0), R(1), R(2)}

Topologies ==
    {"chain", "self", "cycle2", "cycle3", "diamond", "missing_child",
     "cycle_sibling", "kite"}

\* the child ids of recipe r, in position order
Children(t, r) ==
    IF t = "chain" THEN (IF r < NRecipes THEN <<r + 1>> ELSE <<>>)
    ELSE IF t = "self" THEN (IF r = 1 THEN <<1>> ELSE <<>>)
    ELSE IF t = "pair" THEN (IF r = 1 THEN <<2>> ELSE <<>>)
    ELSE IF t = "cycle2" THEN
        (IF r = 1 THEN <<2>> ELSE IF r = 2 THEN <<1>> ELSE <<>>)
    ELSE IF t = "cycle3" THEN
        (IF r = 1 THEN <<2>> ELSE IF r = 2 THEN <<3>>
         ELSE IF r = 3 THEN <<1>> ELSE <<>>)
    ELSE IF t = "diamond" THEN
        (IF r = 1 THEN <<2, 3>> ELSE IF r \in {2, 3} THEN <<4>> ELSE <<>>)
    ELSE IF t = "missing_child" THEN
        (IF r = 1 THEN <<AbsentId, 2>> ELSE <<>>)
    ELSE IF t = "siblings" THEN (IF r = 1 THEN <<2, 3>> ELSE <<>>)
    ELSE IF t = "cycle_sibling" THEN
        (IF r = 1 THEN <<2, 3>> ELSE IF r = 2 THEN <<1>> ELSE <<>>)
    ELSE IF t = "kite" THEN
        (IF r = 1 THEN <<2, 3>> ELSE IF r = 2 THEN <<3>>
         ELSE IF r = 3 THEN <<4>> ELSE <<>>)
    ELSE <<>>

Existing(t) ==
    IF t = "chain" THEN RecipeIds
    ELSE IF t \in {"self", "single"} THEN {1}
    ELSE IF t \in {"pair", "cycle2", "missing_child"} THEN {1, 2}
    ELSE IF t \in {"cycle3", "siblings", "cycle_sibling"} THEN {1, 2, 3}
    ELSE {1, 2, 3, 4}

\* a store: topology t, link quantity q and unit u, per-recipe yield,
\* ingredient-line kind and cached cost_price
Store(t, q, u, yld, kind, cp) ==
    [recipes |-> [r \in Existing(t) |-> Recipe(r, yld[r], cp)],
     ingredients |-> [i \in {Ing.Flour, Ing.Sugar} |-> IngredientNames[i]],
     recipe_ingredients |-> [r \in AllIds |->
         IF r \in Existing(t) THEN Lines(kind[r]) ELSE <<>>],
     recipe_recipes |-> [r \in AllIds |->
         IF r \in Existing(t)
         THEN [i \in 1 .. Len(Children(t, r)) |->
                 RecipeRecipe(r, i, Children(t, r)[i], q, u)]
         ELSE <<>>]]

Const(v) == [r \in AllIds |-> v]
With(f, r, v) == [f EXCEPT ![r] = v]

\* every recipe fully priced, every shape of graph
ShapeStores ==
    {Store(t, R(1), "portion", Const(R(2)), Const("priced"), R(9)) :
        t \in Topologies}

\* one recipe, every kind of ingredient line and yield
SingleStores ==
    {Store("single", R(1), "portion", Const(y), Const(k), cp) :
        y \in Yields, k \in LineKinds, cp \in {None, R(9)}}

\* parent -> child, every link unit
PairStores ==
    {Store("pair", R(3), u, With(Const(R(2)), 2, y),
           With(Const("priced"), 2, k), None) :
        u \in LinkUnits, y \in {R(0), R(1), R(2)},
        k \in {"priced", "unpriced", "zero"}}

\* parent -> two children, the first of them defective
SiblingStores ==
    {Store("siblings", R(1), u, With(Const(R(2)), 2, y),
           With(With(Const("priced"), 2, k2), 1, k1), R(9)) :
        u \in {"portion", "batch"}, y \in {R(0), R(2)},
        k1 \in {"priced", "none", "unpriced"},
        k2 \in {"priced", "unpriced", "mixed", "none"}}

Stores == ShapeStores \cup SingleStores \cup PairStores \cup SiblingStores

\* ------------------------------------------------------------------ state
Callers == {1, 2}

VARIABLES
    recipes,             \* table recipes: id -> Recipe row
    ingredients,         \* table ingredients: id -> name
    recipe_ingredients,  \* recipe id -> its lines, by sort_order
    recipe_recipes,      \* parent id -> its sub-recipe links, by position
    now,                 \* the clock datetime.utcnow() reads
    costing_stack,       \* CostingService._costing_stack, per instance
    instance,            \* the CostingService instance each caller uses
    pc,                  \* per caller: "off", "idle", "costing", "persist"
    op,                  \* per caller: the top-level operation last started
    target,              \* per caller: its recipe_id argument
    max_depth,           \* per caller: its _max_depth argument
    frames,              \* per caller: active calculate_recipe_cost calls
    ret,                 \* per caller: value returned by the last call
    result,              \* per caller: value returned by the operation
    memo,                \* per caller: history, the costs first computed
                         \* for each recipe in the current top-level call
    tasting_sessions,    \* table tasting_sessions: the ids of its rows
    tasting_notes        \* table tasting_notes: its rows

store == <<recipes, ingredients, recipe_ingredients, recipe_recipes>>
tasting == <<tasting_sessions, tasting_notes>>
vars == <<recipes, ingredients, recipe_ingredients, recipe_recipes, now,
          costing_stack, instance, pc, op, target, max_depth, frames, ret,
          result,
         memo, tasting_sessions, tasting_notes>>

\* ------------------------------------------------ missing_costs entries
IngredientEntry(name) == <<"name", name, 0>>
SubRecipeIdEntry(id) == <<"[Sub-recipe id]", "", id>>
SubRecipeNameEntry(name) == <<"[Sub-recipe: name]", name, 0>>

\* ---------------------------------------------- the ingredient-line loop
CostBreakdownItem(ing, ri, quantity_in_base, line_cost) ==
    [ingredient_id |-> ri.ingredient_id,
     ingredient_name |-> ing,
     quantity |-> ri.quantity,
     unit |-> ri.unit,
     quantity_in_base_unit |->
        IF quantity_in_base = None \/ RZero(quantity_in_base)
        THEN ri.quantity ELSE quantity_in_base,
     base_unit |-> ri.base_unit,
     cost_per_base_unit |-> ri.unit_price,
     line_cost |-> line_cost]

IngredientLineCost_ZeroWhenUnpriced(ri) ==
    LET quantity_in_base == convert_to_base_unit(ri.quantity, ri.unit, ri.base_unit)
    IN  IF quantity_in_base # None
        THEN RMul(quantity_in_base,
                  IF ri.unit_price # None THEN ri.unit_price ELSE R(0))
        ELSE None

IngredientLineCost_Unconverted(ri) ==
    IF ri.unit_price # None THEN RMul(ri.quantity, ri.unit_price) ELSE None

IngredientLineCost(ri) ==
    LET quantity_in_base == convert_to_base_unit(ri.quantity, ri.unit, ri.base_unit)
    IN  IF ri.unit_price # None /\ quantity_in_base # None
        THEN RMul(quantity_in_base, ri.unit_price)
        ELSE None

\* one iteration of `for ri in recipe_ingredients`, acc the loop's locals
IngredientStep(acc, ri, ings) ==
    IF ri.ingredient_id \notin DOMAIN ings THEN acc
    ELSE
        LET quantity_in_base ==
                convert_to_base_unit(ri.quantity, ri.unit, ri.base_unit)
            line_cost == IngredientLineCost(ri)
            name == ings[ri.ingredient_id]
        IN  [breakdown |-> Append(acc.breakdown,
                CostBreakdownItem(name, ri, quantity_in_base, line_cost)),
             ingredient_cost |->
                IF line_cost # None THEN RAdd(acc.ingredient_cost, line_cost)
                ELSE acc.ingredient_cost,
             missing_costs |->
                IF line_cost # None THEN acc.missing_costs
                ELSE Append(acc.missing_costs, IngredientEntry(name))]

RECURSIVE IngredientLoop(_, _, _)
IngredientLoop(acc, lines, ings) ==
    IF lines = <<>> THEN acc
    ELSE IngredientLoop(IngredientStep(acc, Head(lines), ings), Tail(lines), ings)

\* ------------------------------------------------ the sub-recipe line rule
\* slip: a child without a cost counted as costing nothing
_calculate_sub_recipe_line_cost_zero(sub_recipe, child_batch_cost, child_portion_cost, child_recipe) ==
    IF child_batch_cost = None \/ child_portion_cost = None THEN R(0)
    ELSE IF sub_recipe.unit = "batch" THEN
        RMul(sub_recipe.quantity, child_batch_cost)
    ELSE RMul(sub_recipe.quantity, child_portion_cost)

_calculate_sub_recipe_line_cost_per_unit(sub_recipe, child_batch_cost, child_portion_cost, child_recipe) ==
    IF sub_recipe.unit = "batch" THEN
        IF child_batch_cost = None THEN None
        ELSE RMul(sub_recipe.quantity, child_batch_cost)
    ELSE IF sub_recipe.unit \in {"g", "ml"} THEN
        IF child_batch_cost # None /\ RPos(child_recipe.yield_quantity)
        THEN RMul(RDiv(sub_recipe.quantity, child_recipe.yield_quantity),
                  child_batch_cost)
        ELSE None
    ELSE IF child_portion_cost = None THEN None
         ELSE RMul(sub_recipe.quantity, child_portion_cost)

_calculate_sub_recipe_line_cost(sub_recipe, child_batch_cost, child_portion_cost, child_recipe) ==
    IF child_batch_cost = None \/ child_portion_cost = None THEN None
    ELSE IF sub_recipe.unit = "portion" THEN
        RMul(sub_recipe.quantity, child_portion_cost)
    ELSE IF sub_recipe.unit = "batch" THEN
        RMul(sub_recipe.quantity, child_batch_cost)
    ELSE IF sub_recipe.unit \in {"g", "ml"} THEN
        IF RPos(child_recipe.yield_quantity)
        THEN RMul(RDiv(sub_recipe.quantity, child_recipe.yield_quantity),
                  child_batch_cost)
        ELSE None
    ELSE RMul(sub_recipe.quantity, child_portion_cost)

SubRecipeCostItem(rr, child_id, child_recipe, child_batch_cost, child_portion_cost, line_cost) ==
    [link_id |-> rr.id,
     recipe_id |-> child_id,
     recipe_name |-> child_recipe.name,
     quantity |-> rr.quantity,
     unit |-> rr.unit,
     sub_recipe_batch_cost |-> child_batch_cost,
     sub_recipe_portion_cost |-> child_portion_cost,
     line_cost |-> line_cost]

\* ------------------------------------------------------------ aggregation
\* slip: the yield_quantity > 0 test left out
CostPerPortion_NoYieldTest(total_cost, recipe) ==
    IF RPos(total_cost) THEN RDiv(total_cost, recipe.yield_quantity) ELSE None

\* slip: the new cost added to the cached cost_price instead of replacing it
CostPerPortion_OnTopOfCache(total_cost, recipe) ==
    IF RPos(total_cost) /\ RPos(recipe.yield_quantity)
    THEN RAdd(RDiv(total_cost, recipe.yield_quantity),
              IF recipe.cost_price = None THEN R(0) ELSE recipe.cost_price)
    ELSE None

CostPerPortion(total_cost, recipe) ==
    IF RPos(total_cost) /\ RPos(recipe.yield_quantity)
    THEN RDiv(total_cost, recipe.yield_quantity)
    ELSE None

\* slip: the total reported like the two subtotals, when it is positive
TotalBatchCost_WhenPositive(total_cost, missing_costs) ==
    IF RPos(total_cost) THEN total_cost ELSE None

TotalBatchCost(total_cost, missing_costs) ==
    IF missing_costs = <<>> THEN total_cost ELSE None

\* slip: the sub-recipe subtotal left out of the total
CostingResult_SubRecipesOmitted(f, recipe) ==
    LET total_cost == f.ingredient_cost IN
    [recipe_id |-> f.recipe_id,
     recipe_name |-> recipe.name,
     yield_quantity |-> recipe.yield_quantity,
     breakdown |-> f.breakdown,
     sub_recipe_breakdown |-> f.sub_recipe_breakdown,
     ingredient_cost |->
        IF RPos(f.ingredient_cost) THEN f.ingredient_cost ELSE None,
     sub_recipe_cost |->
        IF RPos(f.sub_recipe_cost) THEN f.sub_recipe_cost ELSE None,
     total_batch_cost |-> TotalBatchCost(total_cost, f.missing_costs),
     cost_per_portion |-> CostPerPortion(total_cost, recipe),
     missing_costs |-> f.missing_costs]

CostingResult(f, recipe) ==
    LET total_cost == RAdd(f.ingredient_cost, f.sub_recipe_cost) IN
    [recipe_id |-> f.recipe_id,
     recipe_name |-> recipe.name,
     yield_quantity |-> recipe.yield_quantity,
     breakdown |-> f.breakdown,
     sub_recipe_breakdown |-> f.sub_recipe_breakdown,
     ingredient_cost |->
        IF RPos(f.ingredient_cost) THEN f.ingredient_cost ELSE None,
     sub_recipe_cost |->
        IF RPos(f.sub_recipe_cost) THEN f.sub_recipe_cost ELSE None,
     total_batch_cost |-> TotalBatchCost(total_cost, f.missing_costs),
     cost_per_portion |-> CostPerPortion(total_cost, recipe),
     missing_costs |-> f.missing_costs]

\* ------------------------------------------------------------ call frames
Frame(recipe_id, depth, md) ==
    [recipe_id |-> recipe_id, depth |-> depth, max_depth |-> md,
     at |-> "entry", i |-> 1,
     breakdown |-> <<>>, ingredient_cost |-> R(0), missing_costs |-> <<>>,
     sub_recipe_breakdown |-> <<>>, sub_recipe_cost |-> R(0)]

Top(c) == Head(frames[c])
Running(c) == pc[c] = "costing" /\ frames[c] # <<>>
SetTop(c, f) == [frames EXCEPT ![c] = <<f>> \o Tail(@)]

\* a call of calculate_recipe_cost returns v to its caller
Return(c, v) ==
    /\ frames' = [frames EXCEPT ![c] = Tail(@)]
    /\ ret' = [ret EXCEPT ![c] = v]
    /\ IF Len(frames[c]) > 1 THEN UNCHANGED <<pc, result>>
       ELSE IF op[c] = "calculate"
       THEN /\ pc' = [pc EXCEPT ![c] = "idle"]
            /\ result' = [result EXCEPT ![c] = v]
       ELSE /\ pc' = [pc EXCEPT ![c] = "persist"]
            /\ UNCHANGED result

\* ------------------------------------------------------ top-level calls
StartCalculate(c, recipe_id, md) ==
    /\ pc[c] = "idle"
    /\ pc' = [pc EXCEPT ![c] = "costing"]
    /\ op' = [op EXCEPT ![c] = "calculate"]
    /\ target' = [target EXCEPT ![c] = recipe_id]
    /\ max_depth' = [max_depth EXCEPT ![c] = md]
    /\ frames' = [frames EXCEPT ![c] = <<Frame(recipe_id, 0, md)>>]
    /\ ret' = [ret EXCEPT ![c] = None]
    /\ result' = [result EXCEPT ![c] = None]
    /\ UNCHANGED <<store, now, costing_stack, instance>>
    /\ memo' = [memo EXCEPT ![c] = [r \in AllIds |-> None]]
    /\ UNCHANGED tasting

StartPersist(c, recipe_id) ==
    /\ pc[c] = "idle"
    /\ now < MaxClock
    /\ pc' = [pc EXCEPT ![c] = "costing"]
    /\ op' = [op EXCEPT ![c] = "persist"]
    /\ target' = [target EXCEPT ![c] = recipe_id]
    /\ max_depth' = [max_depth EXCEPT ![c] = DefaultMaxDepth]
    /\ frames' = [frames EXCEPT ![c] = <<Frame(recipe_id, 0, DefaultMaxDepth)>>]
    /\ ret' = [ret EXCEPT ![c] = None]
    /\ result' = [result EXCEPT ![c] = None]
    /\ UNCHANGED <<store, now, costing_stack, instance>>
    /\ memo' = [memo EXCEPT ![c] = [r \in AllIds |-> None]]
    /\ UNCHANGED tasting

\* ------------------------------------------------ calculate_recipe_cost
\* lines 91-98: depth guard, cycle guard, push on the cycle-guard set
\* slip: > for >=
DepthGuard_OffByOne(f) == f.depth > f.max_depth

DepthGuard(f) == f.depth >= f.max_depth
CycleGuard(c, f) == f.recipe_id \in costing_stack[instance[c]]

\* slip: the id is never put on the guard set
StackAdd_Forgotten(c, recipe_id) == costing_stack

StackAdd(c, recipe_id) ==
    [costing_stack EXCEPT ![instance[c]] = @ \cup {recipe_id}]
\* slip: no finally block, the id stays on the guard set
StackDiscard_Forgotten(c, recipe_id) == costing_stack

StackDiscard(c, recipe_id) ==
    [costing_stack EXCEPT ![instance[c]] = @ \ {recipe_id}]

CallEntry(c) ==
    /\ Running(c)
    /\ Top(c).at = "entry"
    /\ IF DepthGuard(Top(c)) \/ CycleGuard(c, Top(c))
       THEN /\ Return(c, None)
            /\ UNCHANGED costing_stack
       ELSE /\ costing_stack' = StackAdd(c, Top(c).recipe_id)
            /\ frames' = SetTop(c, [Top(c) EXCEPT !.at = "body"])
            /\ UNCHANGED <<pc, ret, result>>
    /\ UNCHANGED <<store, now, instance, op, target, max_depth>>
    /\ UNCHANGED <<memo, tasting>>

\* lines 100-143: fetch the recipe, then the ingredient-line loop
Body(c) ==
    /\ Running(c)
    /\ Top(c).at = "body"
    /\ IF Top(c).recipe_id \notin DOMAIN recipes
       THEN /\ costing_stack' = StackDiscard(c, Top(c).recipe_id)
            /\ Return(c, None)
       ELSE LET acc == IngredientLoop(
                    [breakdown |-> <<>>, ingredient_cost |-> R(0),
                     missing_costs |-> <<>>],
                    recipe_ingredients[Top(c).recipe_id], ingredients)
            IN  /\ frames' = SetTop(c, [Top(c) EXCEPT
                        !.at = "subs",
                        !.breakdown = acc.breakdown,
                        !.ingredient_cost = acc.ingredient_cost,
                        !.missing_costs = acc.missing_costs])
                /\ UNCHANGED <<costing_stack, pc, ret, result>>
    /\ UNCHANGED <<store, now, instance, op, target, max_depth>>
    /\ UNCHANGED <<memo, tasting>>

\* lines 151-154: the child recipe of a link does not exist; the parent
\* records the child's id and goes on to the next link
MissingChild_Silent(f, rr) == [f EXCEPT !.i = @ + 1]

MissingChild(f, rr) ==
    [f EXCEPT
        !.missing_costs = Append(@, SubRecipeIdEntry(rr.child_recipe_id)),
        !.i = @ + 1]

\* lines 150-159: the next sub-recipe link, up to the recursive call
SubRecipe(c) ==
    /\ Running(c)
    /\ Top(c).at = "subs"
    /\ Top(c).i <= Len(recipe_recipes[Top(c).recipe_id])
    /\ LET f == Top(c)
           rr == recipe_recipes[f.recipe_id][f.i]
       IN  IF rr.child_recipe_id \notin DOMAIN recipes
           THEN frames' = SetTop(c, MissingChild(f, rr))
           ELSE frames' = [frames EXCEPT ![c] =
                    <<Frame(rr.child_recipe_id, f.depth + 1, f.max_depth),
                      [f EXCEPT !.at = "wait"]>> \o Tail(@)]
    /\ UNCHANGED <<store, now, costing_stack, instance, pc, op, target,
                   max_depth, ret, result>>
    /\ UNCHANGED <<memo, tasting>>

\* lines 161-185: the frame of the parent after the recursive call for the
\* link rr has returned child_costing
FoldChild_BreakOnFailure(f, rr, child_recipe, child_costing) ==
    LET child_batch_cost ==
            IF child_costing # None THEN child_costing[1].total_batch_cost
            ELSE None
        child_portion_cost ==
            IF child_costing # None THEN child_costing[1].cost_per_portion
            ELSE None
        line_cost == _calculate_sub_recipe_line_cost(
            rr, child_batch_cost, child_portion_cost, child_recipe)
    IN  [f EXCEPT
            !.at = "subs",
            !.i = IF line_cost # None THEN @ + 1
                  ELSE Len(recipe_recipes[f.recipe_id]) + 1,
            !.sub_recipe_cost =
                IF line_cost # None THEN RAdd(@, line_cost) ELSE @,
            !.missing_costs =
                IF line_cost # None THEN @
                ELSE Append(@, SubRecipeNameEntry(child_recipe.name)),
            !.sub_recipe_breakdown = Append(@,
                SubRecipeCostItem(rr, rr.child_recipe_id, child_recipe,
                    child_batch_cost, child_portion_cost, line_cost))]

\* slip: the entry is put at the front of missing_costs
FoldChild_EntryFirst(f, rr, child_recipe, child_costing) ==
    LET child_batch_cost ==
            IF child_costing # None THEN child_costing[1].total_batch_cost
            ELSE None
        child_portion_cost ==
            IF child_costing # None THEN child_costing[1].cost_per_portion
            ELSE None
        line_cost == _calculate_sub_recipe_line_cost(
            rr, child_batch_cost, child_portion_cost, child_recipe)
    IN  [f EXCEPT
            !.at = "subs",
            !.i = @ + 1,
            !.sub_recipe_cost =
                IF line_cost # None THEN RAdd(@, line_cost) ELSE @,
            !.missing_costs =
                IF line_cost # None THEN @
                ELSE <<SubRecipeNameEntry(child_recipe.name)>> \o @,
            !.sub_recipe_breakdown = Append(@,
                SubRecipeCostItem(rr, rr.child_recipe_id, child_recipe,
                    child_batch_cost, child_portion_cost, line_cost))]

\* slip: the child's cached cost_price taken for its cost per portion
FoldChild_FromCache(f, rr, child_recipe, child_costing) ==
    LET child_batch_cost ==
            IF child_costing # None THEN child_costing[1].total_batch_cost
            ELSE None
        child_portion_cost ==
            IF child_recipe.cost_price # None THEN child_recipe.cost_price
            ELSE IF child_costing # None
            THEN child_costing[1].cost_per_portion
            ELSE None
        line_cost == _calculate_sub_recipe_line_cost(
            rr, child_batch_cost, child_portion_cost, child_recipe)
    IN  [f EXCEPT
            !.at = "subs",
            !.i = @ + 1,
            !.sub_recipe_cost =
                IF line_cost # None THEN RAdd(@, line_cost) ELSE @,
            !.missing_costs =
                IF line_cost # None THEN @
                ELSE Append(@, SubRecipeNameEntry(child_recipe.name)),
            !.sub_recipe_breakdown = Append(@,
                SubRecipeCostItem(rr, rr.child_recipe_id, child_recipe,
                    child_batch_cost, child_portion_cost, line_cost))]

FoldChild(f, rr, child_recipe, child_costing) ==
    LET child_batch_cost ==
            IF child_costing # None THEN child_costing[1].total_batch_cost
            ELSE None
        child_portion_cost ==
            IF child_costing # None THEN child_costing[1].cost_per_portion
            ELSE None
        line_cost == _calculate_sub_recipe_line_cost(
            rr, child_batch_cost, child_portion_cost, child_recipe)
    IN  [f EXCEPT
            !.at = "subs",
            !.i = @ + 1,
            !.sub_recipe_cost =
                IF line_cost # None THEN RAdd(@, line_cost) ELSE @,
            !.missing_costs =
                IF line_cost # None THEN @
                ELSE Append(@, SubRecipeNameEntry(child_recipe.name)),
            !.sub_recipe_breakdown = Append(@,
                SubRecipeCostItem(rr, rr.child_recipe_id, child_recipe,
                    child_batch_cost, child_portion_cost, line_cost))]

\* lines 161-185: the recursive call has returned ret[c]
AfterChild(c) ==
    /\ Running(c)
    /\ Top(c).at = "wait"
    /\ LET f == Top(c)
           rr == recipe_recipes[f.recipe_id][f.i]
       IN  frames' = SetTop(c,
               FoldChild(f, rr, recipes[rr.child_recipe_id], ret[c]))
    /\ UNCHANGED <<store, now, costing_stack, instance, pc, op, target,
                   max_depth, ret, result>>
    /\ UNCHANGED <<memo, tasting>>

\* lines 187-210: aggregate, return the CostingResult, pop the guard set
Aggregate(c) ==
    /\ Running(c)
    /\ Top(c).at = "subs"
    /\ Top(c).i > Len(recipe_recipes[Top(c).recipe_id])
    /\ costing_stack' = StackDiscard(c, Top(c).recipe_id)
    /\ Return(c, <<CostingResult(Top(c), recipes[Top(c).recipe_id])>>)
    /\ UNCHANGED <<store, now, instance, op, target, max_depth>>
    /\ memo' = [memo EXCEPT ![c][Top(c).recipe_id] =
            IF @ # None THEN @
            ELSE LET costing == CostingResult(Top(c), recipes[Top(c).recipe_id])
                 IN  <<costing.total_batch_cost, costing.cost_per_portion>>]
    /\ UNCHANGED tasting

\* ------------------------------------------------ persist_cost_snapshot
\* lines 219-231, after the call of calculate_recipe_cost on line 218
SnapshotValue(costing) == costing.cost_per_portion

\* slip: the UPDATE has no WHERE clause
WriteSnapshot_AllRows(recipe_id, value, t) ==
    [r \in DOMAIN recipes |->
        [recipes[r] EXCEPT !.cost_price = value, !.updated_at = t]]

\* slip: a row that holds a snapshot is not written again
WriteSnapshot_FirstWins(recipe_id, value, t) ==
    IF recipes[recipe_id].updated_at > 0 THEN recipes
    ELSE [recipes EXCEPT ![recipe_id] =
            [@ EXCEPT !.cost_price = value, !.updated_at = t]]

\* lines 226-229: the two fields of the recipe row that are assigned
WriteSnapshot(recipe_id, value, t) ==
    [recipes EXCEPT ![recipe_id] =
        [@ EXCEPT !.cost_price = value, !.updated_at = t]]

PersistWrite(c) ==
    /\ pc[c] = "persist"
    /\ pc' = [pc EXCEPT ![c] = "idle"]
    /\ IF ret[c] = None \/ target[c] \notin DOMAIN recipes
       THEN /\ result' = [result EXCEPT ![c] = None]
            /\ UNCHANGED <<recipes, now>>
       ELSE /\ now' = now + 1
            /\ recipes' = WriteSnapshot(target[c],
                                SnapshotValue(ret[c][1]), now')
            /\ result' = [result EXCEPT ![c] = <<recipes'[target[c]]>>]
    /\ UNCHANGED <<ingredients, recipe_ingredients, recipe_recipes,
                   costing_stack, instance, op, target, max_depth, frames, ret>>
    /\ UNCHANGED <<memo, tasting>>

\* ---------------------------------------------------------- specification
InitWith(S) ==
    /\ \E s \in S :
        /\ recipes = s.recipes
        /\ ingredients = s.ingredients
        /\ recipe_ingredients = s.recipe_ingredients
        /\ recipe_recipes = s.recipe_recipes
    /\ now = 0
    /\ costing_stack = [s \in Callers |-> {}]
    /\ instance = [c \in Callers |-> c]
    /\ pc = [c \in Callers |-> IF c = 1 THEN "idle" ELSE "off"]
    /\ op = [c \in Callers |-> "none"]
    /\ target = [c \in Callers |-> 0]
    /\ max_depth = [c \in Callers |-> 0]
    /\ frames = [c \in Callers |-> <<>>]
    /\ ret = [c \in Callers |-> None]
    /\ result = [c \in Callers |-> None]
    /\ memo = [c \in Callers |-> [r \in AllIds |-> None]]
    /\ tasting_sessions = {}
    /\ tasting_notes = {}

Init == InitWith(Stores)

Roots == DOMAIN recipes \cup {AbsentId}

\* the _max_depth arguments tried: small explicit ones and the default
MaxDepths == (1 .. MaxDepthArg) \cup {DefaultMaxDepth}

Calculate == \E c \in Callers, r \in Roots, md \in MaxDepths :
                StartCalculate(c, r, md)
Persist == \E c \in Callers, r \in Roots : StartPersist(c, r)
Entry == \E c \in Callers : CallEntry(c)
Ingredients == \E c \in Callers : Body(c)
Link == \E c \in Callers : SubRecipe(c)
Fold == \E c \in Callers : AfterChild(c)
Finish == \E c \in Callers : Aggregate(c)
Write == \E c \in Callers : PersistWrite(c)

Next ==
    \/ Calculate
    \/ Persist
    \/ Entry
    \/ Ingredients
    \/ Link
    \/ Fold
    \/ Finish
    \/ Write

Spec == Init /\ [][Next]_vars

\* The walker alone, for termination: only calculate_recipe_cost is called,
\* on every shape of graph, and a started call keeps running (the
\* interpreter never stops in the middle of a synchronous call).
WalkStores == ShapeStores \cup PairStores
WalkInit == InitWith(WalkStores)

WalkStep == Entry \/ Ingredients \/ Link \/ Fold \/ Finish

WalkNext ==
    \/ Calculate
    \/ Entry
    \/ Ingredients
    \/ Link
    \/ Fold
    \/ Finish

FairWalk == WalkInit /\ [][WalkNext]_vars /\ WF_vars(WalkStep)

\* Two call sites, each keeping what its last top-level call returned.
\* They use one CostingService instance (line 25: the guard set is an
\* attribute of the instance) or one instance each.
TwoInit(S) ==
    /\ \E s \in S :
        /\ recipes = s.recipes
        /\ ingredients = s.ingredients
        /\ recipe_ingredients = s.recipe_ingredients
        /\ recipe_recipes = s.recipe_recipes
    /\ now = 0
    /\ costing_stack = [s \in Callers |-> {}]
    /\ \E i \in Callers :
        instance = [c \in Callers |-> IF c = 1 THEN 1 ELSE i]
    /\ pc = [c \in Callers |-> "idle"]
    /\ op = [c \in Callers |-> "none"]
    /\ target = [c \in Callers |-> 0]
    /\ max_depth = [c \in Callers |-> 0]
    /\ frames = [c \in Callers |-> <<>>]
    /\ ret = [c \in Callers |-> None]
    /\ result = [c \in Callers |-> None]
    /\ memo = [c \in Callers |-> [r \in AllIds |-> None]]
    /\ tasting_sessions = {}
    /\ tasting_notes = {}

\* Successive calls: a top-level call starts only when no other call is
\* in progress, on either call site.
Quiet == \A c \in Callers : pc[c] = "idle"
SeqCalculate == Quiet /\ Calculate
SeqStores == ShapeStores
SeqInit == TwoInit(SeqStores)
SeqNext == SeqCalculate \/ WalkStep
SeqSpec == SeqInit /\ [][SeqNext]_vars

\* Overlapping calls: two threads, each running its own top-level calls,
\* interleaved between any two steps of the walker.
ConcStores ==
    {Store(t, R(1), "portion", Const(R(2)), Const("priced"), R(9)) :
        t \in {"pair", "cycle2"}}
ConcInit == TwoInit(ConcStores)
ConcNext == Calculate \/ WalkStep
ConcSpec == ConcInit /\ [][ConcNext]_vars

\* Successive calls of calculate_recipe_cost and persist_cost_snapshot from
\* two call sites: between two calculations the cached cost_price of any
\* recipe may have been rewritten, and it starts absent or stale.
SeqPersist == Quiet /\ Persist
CacheStores ==
    {Store(t, R(1), "portion", Const(R(2)), Const("priced"), cp) :
        t \in {"pair", "cycle2"}, cp \in {None, R(9)}}
CacheInit == TwoInit(CacheStores)
CacheNext == SeqCalculate \/ SeqPersist \/ WalkStep \/ Write
CacheSpec == CacheInit /\ [][CacheNext]_vars

\* ------------------------------------------------- vocabulary of the claims
\* the top-level call of calculate_recipe_cost of caller c has returned ret[c]
Done(c) == pc[c] \in {"idle", "persist"} /\ op[c] # "none"

Has(seq, e) == \E k \in 1 .. Len(seq) : seq[k] = e

HasLink(a, b) ==
    \E k \in 1 .. Len(recipe_recipes[a]) :
        recipe_recipes[a][k].child_recipe_id = b

Succ(r) ==
    {recipe_recipes[r][k].child_recipe_id : k \in 1 .. Len(recipe_recipes[r])}
        \cap DOMAIN recipes

RECURSIVE ReachN(_, _)
ReachN(S, n) ==
    IF n = 0 THEN S ELSE ReachN(S \cup UNION {Succ(x) : x \in S}, n - 1)

Descendants(r) == ReachN(Succ(r), NRecipes)
Acyclic == \A r \in DOMAIN recipes : r \notin Descendants(r)

\* number of recipes on the longest path of sub-recipe links from r
RECURSIVE HeightN(_, _)
HeightN(r, fuel) ==
    IF fuel = 0 THEN 0
    ELSE LET hs == {HeightN(x, fuel - 1) : x \in Succ(r)} IN
         1 + (IF hs = {} THEN 0 ELSE CHOOSE h \in hs : \A g \in hs : g <= h)
Height(r) == HeightN(r, NRecipes + 1)

\* every sub-recipe link list has at most one link, to an existing recipe,
\* and no recipe is reachable from itself
LinearChain ==
    /\ Acyclic
    /\ \A r \in DOMAIN recipes :
          /\ Len(recipe_recipes[r]) <= 1
          /\ \A k \in 1 .. Len(recipe_recipes[r]) :
                recipe_recipes[r][k].child_recipe_id \in DOMAIN recipes

\* r and everything below it has a positive yield, at least one component,
\* and only components with a positive price and quantity
RECURSIVE FullyPricedN(_, _)
FullyPricedN(r, fuel) ==
    /\ fuel > 0
    /\ r \in DOMAIN recipes
    /\ RPos(recipes[r].yield_quantity)
    /\ Len(recipe_ingredients[r]) + Len(recipe_recipes[r]) > 0
    /\ \A k \in 1 .. Len(recipe_ingredients[r]) :
          LET ri == recipe_ingredients[r][k] IN
          /\ ri.ingredient_id \in DOMAIN ingredients
          /\ IngredientLineCost(ri) # None
          /\ RPos(IngredientLineCost(ri))
    /\ \A k \in 1 .. Len(recipe_recipes[r]) :
          LET rr == recipe_recipes[r][k] IN
          /\ RPos(rr.quantity)
          /\ FullyPricedN(rr.child_recipe_id, fuel - 1)
FullyPriced(r) == FullyPricedN(r, NRecipes + 1)

AllFrames(c) == {frames[c][k] : k \in 1 .. Len(frames[c])}

\* ------------------------------------------------------------------ C1
\* C1: in every CostingResult returned by calculate_recipe_cost, at any
\* recursion level, total_batch_cost is present if and only if
\* missing_costs is empty.
C1_TotalIffNoMissing ==
    \A c \in Callers :
        ret[c] # None =>
            ((ret[c][1].total_batch_cost # None)
                <=> (ret[c][1].missing_costs = <<>>))

\* a sub-recipe call has returned a result with an unpriced line and no total
C1_Witness ==
    /\ frames[1] # <<>>
    /\ ret[1] # None
    /\ ret[1][1].missing_costs # <<>>
    /\ ret[1][1].total_batch_cost = None

\* ------------------------------------------------------------------ C2
\* C2: in every CostingResult returned by calculate_recipe_cost,
\* cost_per_portion is present only if total_batch_cost is present and
\* yield_quantity > 0; a result with a non-empty missing_costs carries no
\* cost_per_portion.
C2_PortionOnlyWithTotal ==
    \A c \in Callers :
        (ret[c] # None /\ ret[c][1].cost_per_portion # None) =>
            /\ ret[c][1].total_batch_cost # None
            /\ RPos(ret[c][1].yield_quantity)
            /\ ret[c][1].missing_costs = <<>>

\* ------------------------------------------------------------------ C3
\* C3: in every CostingResult with total_batch_cost present and
\* yield_quantity > 0, cost_per_portion is present and equals
\* total_batch_cost / yield_quantity, whatever the value of the total.
C3_PortionIsTotalOverYield ==
    \A c \in Callers :
        (/\ ret[c] # None
         /\ ret[c][1].total_batch_cost # None
         /\ RPos(ret[c][1].yield_quantity)) =>
            /\ ret[c][1].cost_per_portion # None
            /\ ret[c][1].cost_per_portion =
                 RDiv(ret[c][1].total_batch_cost, ret[c][1].yield_quantity)

\* ------------------------------------------------------------------ C4
\* C4: for every recipe whose yield_quantity is <= 0 the CostingResult
\* has cost_per_portion absent.
C4_NoPortionWithoutYield ==
    \A c \in Callers :
        (ret[c] # None /\ ~RPos(ret[c][1].yield_quantity)) =>
            ret[c][1].cost_per_portion = None

\* a recipe with yield <= 0 and a positive known total has been costed
C4_Witness ==
    /\ ret[1] # None
    /\ ~RPos(ret[1][1].yield_quantity)
    /\ ret[1][1].total_batch_cost # None
    /\ RPos(ret[1][1].total_batch_cost)
    /\ ret[1][1].cost_per_portion = None

\* ------------------------------------------------------------------ C5
\* C5: every top-level calculate_recipe_cost terminates, on graphs with
\* self-loops and cycles too; when the links of A form a cycle A->B->A the
\* call returns a CostingResult for A whose missing_costs holds the entry
\* for B and whose total_batch_cost is absent.
C5_CycleSafe ==
    /\ \A c \in Callers : (pc[c] = "costing") ~> (pc[c] # "costing")
    /\ [](\A c \in Callers : \A a \in DOMAIN recipes : \A b \in DOMAIN recipes :
            (Done(c) /\ target[c] = a /\ HasLink(a, b) /\ HasLink(b, a)) =>
                /\ ret[c] # None
                /\ ret[c][1].recipe_id = a
                /\ Has(ret[c][1].missing_costs,
                       SubRecipeNameEntry(recipes[b].name))
                /\ ret[c][1].total_batch_cost = None)

\* calculate_recipe_cost(A) has returned on a graph with A->B->A, B # A
C5_Witness ==
    /\ Done(1) /\ op[1] = "calculate" /\ target[1] = 1
    /\ 2 \in DOMAIN recipes /\ HasLink(1, 2) /\ HasLink(2, 1)
    /\ ret[1] # None
    /\ Has(ret[1][1].missing_costs, SubRecipeNameEntry(recipes[2].name))

\* ------------------------------------------------------------------ C6
\* C6: on a strictly linear acyclic chain of sub-recipes a top-level
\* calculate_recipe_cost terminates; a recipe is costed exactly when its
\* depth is < max_depth, the call at depth max_depth returns no result, the
\* recipe at depth max_depth - 1 then records an indeterminate sub-recipe
\* entry, and a chain of at most max_depth fully priced recipes is costed
\* completely.
C6_ChainInv ==
    LinearChain => \A c \in Callers :
        /\ \A f \in AllFrames(c) : f.at # "entry" => f.depth < f.max_depth
        /\ (Running(c) /\ Top(c).at = "wait") =>
              ((ret[c] = None) <=> (Top(c).depth + 1 >= Top(c).max_depth))
        /\ \A f \in AllFrames(c) :
              (f.at = "subs" /\ f.i = 2 /\ f.depth = f.max_depth - 1) =>
                 Has(f.missing_costs, SubRecipeNameEntry(
                     recipes[recipe_recipes[f.recipe_id][1].child_recipe_id].name))
        /\ (/\ Done(c)
            /\ FullyPriced(target[c])
            /\ Height(target[c]) <= max_depth[c]) =>
              /\ ret[c] # None
              /\ ret[c][1].missing_costs = <<>>
              /\ ret[c][1].total_batch_cost # None
              /\ ret[c][1].cost_per_portion # None

C6_DepthBound ==
    /\ \A c \in Callers :
          (pc[c] = "costing" /\ LinearChain) ~> (pc[c] # "costing")
    /\ []C6_ChainInv

\* a chain longer than max_depth has been costed from its head
C6_Witness ==
    /\ LinearChain
    /\ Done(1) /\ op[1] = "calculate"
    /\ target[1] \in DOMAIN recipes
    /\ Height(target[1]) > max_depth[1]
    /\ ret[1] # None
    /\ ret[1][1].missing_costs # <<>>

\* ------------------------------------------------------------------ C7
\* C7: at every step of a single-threaded cost computation the cycle-guard
\* set _costing_stack is exactly the set of recipe ids whose call of
\* calculate_recipe_cost has entered and not yet exited; it is empty when
\* no top-level call is active.
C7_StackIsActivePath ==
    \A c \in Callers :
        costing_stack[instance[c]] =
            {f.recipe_id : f \in {g \in AllFrames(c) : g.at # "entry"}}

\* the second child is being costed after its sibling has completed
C7_Witness ==
    /\ Len(frames[1]) = 2
    /\ frames[1][1].at = "subs"
    /\ frames[1][2].sub_recipe_breakdown # <<>>
    /\ costing_stack[1] = {frames[1][1].recipe_id, frames[1][2].recipe_id}
    /\ frames[1][2].sub_recipe_breakdown[1].recipe_id \notin costing_stack[1]

\* ------------------------------------------------------------------ C8
\* C8: in an acyclic recipe graph the cycle guard never triggers; a child
\* shared by two branches (diamond A->B->D, A->C->D) is costed in both,
\* and every sub-recipe line whose child is fully priced and lies below
\* max_depth gets a determinate line cost and no missing_costs entry.
C8_DiamondSharing ==
    Acyclic => \A c \in Callers :
        /\ (Running(c) /\ Top(c).at = "entry") => ~CycleGuard(c, Top(c))
        /\ \A f \in AllFrames(c) : \A k \in 1 .. Len(f.sub_recipe_breakdown) :
              LET it == f.sub_recipe_breakdown[k] IN
              (/\ FullyPriced(it.recipe_id)
               /\ f.depth + Height(it.recipe_id) < f.max_depth) =>
                  /\ it.line_cost # None
                  /\ it.sub_recipe_batch_cost # None
                  /\ ~Has(f.missing_costs, SubRecipeNameEntry(it.recipe_name))

\* the diamond has been costed from A: both lines of A are determinate
C8_Witness ==
    /\ Done(1) /\ target[1] = 1
    /\ HasLink(1, 2) /\ HasLink(1, 3) /\ HasLink(2, 4) /\ HasLink(3, 4)
    /\ ret[1] # None
    /\ Len(ret[1][1].sub_recipe_breakdown) = 2
    /\ ret[1][1].total_batch_cost # None

\* ------------------------------------------------------------------ C9
\* C9: persist_cost_snapshot performs no write when the recipe is not found
\* or the computed result has no resolvable cost_per_portion: cost_price
\* and updated_at stay as they were and the call reports not-found; a
\* recipe with a non-empty missing_costs never gets a cost written.
C9_NoWriteWhenUnresolved ==
    [][\A c \in Callers :
        (/\ pc[c] = "persist" /\ pc'[c] = "idle"
         /\ \/ ret[c] = None
            \/ ret[c][1].cost_per_portion = None
            \/ ret[c][1].missing_costs # <<>>) =>
            /\ recipes' = recipes
            /\ result'[c] = None]_vars

\* ------------------------------------------------------------------ C10
\* C10: persist_cost_snapshot is idempotent on the cached cost: on an
\* unchanged recipe graph every call after the first leaves cost_price at
\* the value the first call stored.
C10_PersistIdempotent ==
    [][\A c \in Callers :
        (/\ pc[c] = "persist" /\ pc'[c] = "idle"
         /\ target[c] \in DOMAIN recipes
         /\ recipes[target[c]].updated_at > 0) =>
            recipes'[target[c]].cost_price = recipes[target[c]].cost_price]_vars

\* the same recipe has been persisted twice and holds a cost
C10_Witness ==
    /\ now = 2
    /\ pc[1] = "idle" /\ op[1] = "persist"
    /\ target[1] \in DOMAIN recipes
    /\ \A r \in DOMAIN recipes : recipes[r].updated_at > 0 => r = target[1]
    /\ recipes[target[1]].updated_at = 2
    /\ recipes[target[1]].cost_price # None
    /\ Len(recipe_recipes[target[1]]) > 0

\* ------------------------------------------------------------------ C11
\* C11: two successive top-level calls of calculate_recipe_cost for the
\* same recipe, with no change of the graph between them, return the same
\* CostingResult, whether they go through one CostingService instance or
\* two, and whatever other calls were made in between.
C11_SameResult ==
    \A c1, c2 \in Callers :
        (/\ Done(c1) /\ Done(c2)
         /\ op[c1] = "calculate" /\ op[c2] = "calculate"
         /\ target[c1] = target[c2]
         /\ max_depth[c1] = max_depth[c2])
            => result[c1] = result[c2]

\* both call sites, on one instance, hold a result for the same recipe of
\* a cyclic graph
C11_Witness ==
    /\ instance[1] = instance[2]
    /\ Done(1) /\ Done(2)
    /\ op[1] = "calculate" /\ op[2] = "calculate"
    /\ target[1] = target[2]
    /\ max_depth[1] = max_depth[2]
    /\ target[1] \in DOMAIN recipes
    /\ ~Acyclic
    /\ result[1] # None
    /\ result[1][1].missing_costs # <<>>

\* the sub-recipe links of recipe a, and the sum of the line costs that
\* the first n items of a breakdown carry
LinksOf(a) == recipe_recipes[a]
ChildExists(rr) == rr.child_recipe_id \in DOMAIN recipes

RECURSIVE SumLineCosts(_, _)
SumLineCosts(items, n) ==
    IF n = 0 THEN R(0)
    ELSE LET before == SumLineCosts(items, n - 1) IN
         IF items[n].line_cost = None THEN before
         ELSE RAdd(before, items[n].line_cost)

ItemOfLink(result_, rr) ==
    {k \in 1 .. Len(result_.sub_recipe_breakdown) :
        result_.sub_recipe_breakdown[k].link_id = rr.id}

\* ------------------------------------------------------------------ C12
\* C12: a link to a child recipe that does not exist does not abort the
\* parent: the parent returns a CostingResult whose missing_costs has
\* "[Sub-recipe <child_id>]", the link has no item and adds no amount, the
\* other links each have their item, and total_batch_cost is absent.
C12_MissingChildRecorded ==
    \A c \in Callers :
        /\ ret[c] # None =>
            LET r == ret[c][1] IN
            \A k \in 1 .. Len(LinksOf(r.recipe_id)) :
                LET rr == LinksOf(r.recipe_id)[k] IN
                ~ChildExists(rr) =>
                    /\ Has(r.missing_costs,
                           SubRecipeIdEntry(rr.child_recipe_id))
                    /\ ItemOfLink(r, rr) = {}
                    /\ \A j \in 1 .. Len(LinksOf(r.recipe_id)) :
                          ChildExists(LinksOf(r.recipe_id)[j]) =>
                              ItemOfLink(r, LinksOf(r.recipe_id)[j]) # {}
                    /\ LET sum == SumLineCosts(r.sub_recipe_breakdown,
                                      Len(r.sub_recipe_breakdown))
                       IN  r.sub_recipe_cost =
                               (IF RPos(sum) THEN sum ELSE None)
                    /\ r.total_batch_cost = None
        /\ (/\ Done(c)
            /\ target[c] \in DOMAIN recipes
            /\ max_depth[c] >= 1
            /\ \E k \in 1 .. Len(LinksOf(target[c])) :
                  ~ChildExists(LinksOf(target[c])[k]))
                => (ret[c] # None /\ ret[c][1].recipe_id = target[c])

\* a parent whose first link has no child recipe has returned, with the
\* line of its second link costed
C12_Witness ==
    /\ Done(1)
    /\ ret[1] # None
    /\ ret[1][1].recipe_id = target[1]
    /\ Len(LinksOf(target[1])) = 2
    /\ ~ChildExists(LinksOf(target[1])[1])
    /\ Len(ret[1][1].sub_recipe_breakdown) = 1
    /\ ret[1][1].sub_recipe_breakdown[1].line_cost = R(3)
    /\ ret[1][1].sub_recipe_cost = R(3)

\* ------------------------------------------------------------------ C13
\* C13: a failing sub-recipe link (cycle, depth limit, missing child,
\* unpriced component) never aborts its siblings: each link with an
\* existing child that the parent has gone past has its own item, in link
\* order, the subtotal is the sum of the determinate line costs, and the
\* line of a fully priced sibling within the depth limit is determinate.
C13_SiblingsUnaffected ==
    \A c \in Callers : \A n \in 1 .. Len(frames[c]) :
        LET f == frames[c][n] IN
        f.at \in {"subs", "wait"} =>
            LET past == SelectSeq(SubSeq(LinksOf(f.recipe_id), 1, f.i - 1),
                                  ChildExists)
                items == f.sub_recipe_breakdown
            IN  /\ Len(items) = Len(past)
                /\ f.sub_recipe_cost = SumLineCosts(items, Len(items))
                /\ \A j \in 1 .. Len(items) :
                      LET rr == past[j]
                          child == rr.child_recipe_id
                      IN  /\ items[j].link_id = rr.id
                          /\ items[j].recipe_id = child
                          /\ items[j].line_cost =
                                _calculate_sub_recipe_line_cost(rr,
                                    items[j].sub_recipe_batch_cost,
                                    items[j].sub_recipe_portion_cost,
                                    recipes[child])
                          /\ (/\ FullyPriced(child)
                              /\ RPos(rr.quantity)
                              /\ f.depth + Height(child) < f.max_depth)
                                => (/\ items[j].line_cost # None
                                    /\ RPos(items[j].line_cost))

\* a parent has gone past a failing first link and a second link whose
\* line is determinate: the subtotal is that line's cost
C13_Witness ==
    /\ Running(1)
    /\ Top(1).at = "subs"
    /\ Top(1).i = 3
    /\ Len(Top(1).sub_recipe_breakdown) = 2
    /\ Top(1).sub_recipe_breakdown[1].line_cost = None
    /\ Top(1).sub_recipe_breakdown[2].line_cost # None
    /\ Top(1).sub_recipe_cost = Top(1).sub_recipe_breakdown[2].line_cost
    /\ Top(1).missing_costs # <<>>

\* the ingredient lines of recipe a that have an Ingredient row, in
\* sort order
HasIngredient(ri) == ri.ingredient_id \in DOMAIN ingredients
LinesOf(a) == SelectSeq(recipe_ingredients[a], HasIngredient)

\* ------------------------------------------------------------------ C14
\* C14: in every returned CostingResult, an ingredient line with no
\* unit_price, or whose quantity could not be converted to the base unit,
\* has a null line_cost and its ingredient's name in missing_costs, the
\* ingredient subtotal is the sum of the other lines' costs, and
\* total_batch_cost is absent.
C14_UnpricedLineMissing ==
    \A c \in Callers :
        ret[c] # None =>
            LET r == ret[c][1]
                lines == LinesOf(r.recipe_id)
                sum == SumLineCosts(r.breakdown, Len(r.breakdown))
            IN  /\ Len(r.breakdown) = Len(lines)
                /\ r.ingredient_cost = (IF RPos(sum) THEN sum ELSE None)
                /\ \A k \in 1 .. Len(lines) :
                      (\/ lines[k].unit_price = None
                       \/ convert_to_base_unit(lines[k].quantity,
                              lines[k].unit, lines[k].base_unit) = None)
                        => /\ r.breakdown[k].ingredient_id
                                  = lines[k].ingredient_id
                           /\ r.breakdown[k].line_cost = None
                           /\ Has(r.missing_costs, IngredientEntry(
                                  ingredients[lines[k].ingredient_id]))
                           /\ r.total_batch_cost = None

\* a result with one priced line and one line without unit_price: the
\* subtotal is the priced line's cost and there is no total
C14_Witness ==
    /\ ret[1] # None
    /\ Len(ret[1][1].breakdown) = 2
    /\ ret[1][1].breakdown[1].line_cost = R(6)
    /\ ret[1][1].breakdown[2].line_cost = None
    /\ ret[1][1].breakdown[2].cost_per_base_unit = None
    /\ ret[1][1].ingredient_cost = R(6)
    /\ ret[1][1].missing_costs = <<IngredientEntry(IngredientNames[2])>>
    /\ ret[1][1].total_batch_cost = None

\* an ingredient line with a unit price whose quantity converts
Costable(ri) ==
    /\ ri.unit_price # None
    /\ convert_to_base_unit(ri.quantity, ri.unit, ri.base_unit) # None

\* ------------------------------------------------------------------ C15
\* C15: in every returned CostingResult the line_cost of an ingredient
\* line with a unit price and a convertible quantity is the converted
\* quantity times the unit price, and for a recipe with only such lines
\* and no sub-recipe links total_batch_cost is the sum of the line costs:
\* 500 g at 0.002 with yield 2 gives total 1 and 0.5 per portion, 1 kg of
\* an ingredient priced 0.001 per g gives total 1.
C15_PricedLines ==
    \A c \in Callers :
        ret[c] # None =>
            LET r == ret[c][1]
                all == recipe_ingredients[r.recipe_id]
                lines == LinesOf(r.recipe_id)
            IN  /\ \A k \in 1 .. Len(lines) :
                      Costable(lines[k]) =>
                          r.breakdown[k].line_cost =
                              RMul(convert_to_base_unit(lines[k].quantity,
                                       lines[k].unit, lines[k].base_unit),
                                   lines[k].unit_price)
                /\ (/\ LinksOf(r.recipe_id) = <<>>
                    /\ Len(lines) = Len(all)
                    /\ \A k \in 1 .. Len(lines) : Costable(lines[k]))
                      => r.total_batch_cost =
                            SumLineCosts(r.breakdown, Len(r.breakdown))
                /\ (all = Lines("test_bread") /\ LinksOf(r.recipe_id) = <<>>)
                      => /\ r.total_batch_cost = R(1)
                         /\ r.yield_quantity = R(2)
                                => r.cost_per_portion = Frac(1, 2)
                /\ (all = Lines("kg") /\ LinksOf(r.recipe_id) = <<>>)
                      => /\ r.breakdown[1].quantity_in_base_unit = R(1000)
                         /\ r.breakdown[1].line_cost = R(1)
                         /\ r.total_batch_cost = R(1)

\* the recipe of the test has been costed: 500 g at 0.002, yield 2
C15_Witness ==
    /\ Done(1)
    /\ ret[1] # None
    /\ recipe_ingredients[ret[1][1].recipe_id] = Lines("test_bread")
    /\ ret[1][1].yield_quantity = R(2)
    /\ ret[1][1].breakdown[1].line_cost = R(1)
    /\ ret[1][1].total_batch_cost = R(1)
    /\ ret[1][1].cost_per_portion = Frac(1, 2)

\* every SubRecipeCostItem built so far by the calls in progress
ItemsOf(f) == {f.sub_recipe_breakdown[j] : j \in 1 .. Len(f.sub_recipe_breakdown)}
AllItems == UNION {ItemsOf(f) : f \in UNION {AllFrames(c) : c \in Callers}}

\* ------------------------------------------------------------------ C16
\* C16: the line cost of a sub-recipe link whose unit is portion, or any
\* value other than batch, g and ml, is quantity times the child's
\* cost_per_portion whenever that is present, and absent when it is not.
C16_PortionRule ==
    \A item \in AllItems :
        item.unit \notin {"batch", "g", "ml"} =>
            item.line_cost =
                (IF item.sub_recipe_portion_cost # None
                 THEN RMul(item.quantity, item.sub_recipe_portion_cost)
                 ELSE None)

\* ------------------------------------------------------------------ C17
\* C17: the line cost of a sub-recipe link whose unit is batch is quantity
\* times the child's total_batch_cost whenever that is present, whatever
\* the child's cost_per_portion and yield_quantity, and absent only when
\* the child's total_batch_cost is absent.
C17_BatchRule ==
    \A item \in AllItems :
        item.unit = "batch" =>
            item.line_cost =
                (IF item.sub_recipe_batch_cost # None
                 THEN RMul(item.quantity, item.sub_recipe_batch_cost)
                 ELSE None)

\* ------------------------------------------------------------------ C18
\* C18: the line cost of a sub-recipe link whose unit is g or ml is
\* (quantity / child yield_quantity) times the child's total_batch_cost
\* when that is present and the child's yield_quantity is positive, and
\* absent when the yield is not positive or the batch cost is absent.
C18_WeightRule ==
    \A item \in AllItems :
        item.unit \in {"g", "ml"} =>
            item.line_cost =
                (IF /\ item.sub_recipe_batch_cost # None
                    /\ RPos(recipes[item.recipe_id].yield_quantity)
                 THEN RMul(RDiv(item.quantity,
                                recipes[item.recipe_id].yield_quantity),
                           item.sub_recipe_batch_cost)
                 ELSE None)

\* a recipe whose own cost cannot be determined: an ingredient line that
\* cannot be costed, a link to a recipe that does not exist, or a cycle
\* through the recipe; and a recipe with such a recipe at or below it
Defect(d) ==
    \/ \E k \in 1 .. Len(LinesOf(d)) : ~Costable(LinesOf(d)[k])
    \/ \E k \in 1 .. Len(LinksOf(d)) : ~ChildExists(LinksOf(d)[k])
    \/ d \in Descendants(d)
DefectBelow(r) == \E d \in {r} \cup Descendants(r) : Defect(d)

\* the call for the link of the waiting frame of caller c has returned an
\* indeterminate result
ChildIndeterminate(c) ==
    /\ Running(c)
    /\ Top(c).at = "wait"
    /\ \/ ret[c] = None
       \/ ret[c][1].missing_costs # <<>>

\* every returned result: a line without cost is named in missing_costs,
\* non-empty missing_costs leaves no total, and a link to a child with a
\* defect at or below it has a line without cost
C19_Result ==
    \A c \in Callers :
        ret[c] # None =>
            LET r == ret[c][1]
                items == r.sub_recipe_breakdown
            IN  /\ r.missing_costs # <<>> => r.total_batch_cost = None
                /\ \A j \in 1 .. Len(items) :
                      /\ items[j].line_cost = None =>
                            Has(r.missing_costs,
                                SubRecipeNameEntry(items[j].recipe_name))
                      /\ DefectBelow(items[j].recipe_id) =>
                            items[j].line_cost = None

\* folding an indeterminate child result into its parent gives a line
\* without cost, a "[Sub-recipe: <name>]" entry, and no amount
C19_Fold ==
    \A c \in Callers :
        (ChildIndeterminate(c) /\ frames'[c] # frames[c]) =>
            LET f == Top(c)
                g == Head(frames'[c])
                child == LinksOf(f.recipe_id)[f.i].child_recipe_id
                item == g.sub_recipe_breakdown[Len(g.sub_recipe_breakdown)]
            IN  /\ Len(g.sub_recipe_breakdown)
                      = Len(f.sub_recipe_breakdown) + 1
                /\ item.recipe_id = child
                /\ item.line_cost = None
                /\ g.missing_costs = Append(f.missing_costs,
                        SubRecipeNameEntry(recipes[child].name))
                /\ g.sub_recipe_cost = f.sub_recipe_cost

\* ------------------------------------------------------------------ C19
\* C19: indeterminacy propagates to every ancestor and is never replaced
\* by zero or a partial value: when a recipe reached from R has non-empty
\* missing_costs or returned no result, the sub-recipe line of each
\* ancestor on the path up to R has a null line_cost, each ancestor
\* records "[Sub-recipe: <name>]", and R has no total_batch_cost.
C19_Propagates == []C19_Result /\ [][C19_Fold]_vars

\* three levels: the innermost call returned nothing, the middle one a
\* result naming it, and the outermost has folded that into a null line
C19_Witness ==
    /\ Running(1)
    /\ Len(frames[1]) = 1
    /\ Top(1).at = "subs"
    /\ Top(1).i = 2
    /\ ret[1] # None
    /\ ret[1][1].recipe_id = Top(1).sub_recipe_breakdown[1].recipe_id
    /\ Len(ret[1][1].sub_recipe_breakdown) = 1
    /\ ret[1][1].sub_recipe_breakdown[1].sub_recipe_batch_cost = None
    /\ ret[1][1].ingredient_cost # None
    /\ Top(1).sub_recipe_breakdown[1].line_cost = None
    /\ Top(1).sub_recipe_breakdown[1].sub_recipe_portion_cost # None
    /\ Top(1).missing_costs =
          <<SubRecipeNameEntry(ret[1][1].recipe_name)>>

\* ------------------------------------------------------------------ C20
\* C20: guard state never leaks between independent top-level
\* invocations, overlapping ones on one CostingService instance included:
\* a top-level call starts from an empty guard set, and a call is treated
\* as a cycle only when its recipe is in progress further up its own
\* chain of calls.
C20_NoLeak ==
    \A c \in Callers :
        (Running(c) /\ Top(c).at = "entry") =>
            /\ Top(c).depth = 0 => costing_stack[instance[c]] = {}
            /\ (~DepthGuard(Top(c)) /\ CycleGuard(c, Top(c))) =>
                  \E k \in 2 .. Len(frames[c]) :
                      frames[c][k].recipe_id = Top(c).recipe_id

\* a call of calculate_recipe_cost by caller c returns in this step; the
\* recipe it was for, and the two costs a parent takes from what it
\* returned (lines 161-162)
ReturnStep(c) == Running(c) /\ Len(frames'[c]) < Len(frames[c])
ReturnedCosts(c) ==
    IF ret'[c] = None THEN <<None, None>>
    ELSE <<ret'[c][1].total_batch_cost, ret'[c][1].cost_per_portion>>
InProgressAbove(c) ==
    \E k \in 2 .. Len(frames[c]) :
        frames[c][k].recipe_id = Top(c).recipe_id

\* ------------------------------------------------------------------ C21
\* C21 as stated: within one top-level call, a call for a recipe whose
\* costs were computed before in that call returns the same batch and
\* portion cost, whichever parent asks at whichever depth, so that
\* memoizing the costs by recipe id changes no result, on every graph,
\* chains beyond max_depth included.
C21_PathIndependent ==
    [][\A c \in Callers :
          (/\ ReturnStep(c)
           /\ ~InProgressAbove(c)
           /\ memo[c][Top(c).recipe_id] # None)
              => ReturnedCosts(c) = memo[c][Top(c).recipe_id]]_vars

\* C21 amended: the same, for top-level calls whose _max_depth is greater
\* than the number of recipes, so that no call reaches the depth limit.
C21_PathIndependentBelowLimit ==
    [][\A c \in Callers :
          (/\ ReturnStep(c)
           /\ ~InProgressAbove(c)
           /\ memo[c][Top(c).recipe_id] # None
           /\ max_depth[c] > Cardinality(DOMAIN recipes))
              => ReturnedCosts(c) = memo[c][Top(c).recipe_id]]_vars

\* diamond: recipe 4 has been costed below recipe 2 and has just been
\* costed again below recipe 3, with the same costs
C21_Witness ==
    /\ Running(1)
    /\ max_depth[1] = DefaultMaxDepth
    /\ Len(frames[1]) = 2
    /\ Top(1).at = "wait"
    /\ frames[1][2].i = 2
    /\ Len(frames[1][2].sub_recipe_breakdown) = 1
    /\ frames[1][2].sub_recipe_breakdown[1].line_cost # None
    /\ ret[1] # None
    /\ ret[1][1].recipe_id \notin {Top(1).recipe_id, frames[1][2].recipe_id}
    /\ memo[1][ret[1][1].recipe_id]
          = <<ret[1][1].total_batch_cost, ret[1][1].cost_per_portion>>
    /\ ret[1][1].total_batch_cost # None

\* caller c completes a successful persist_cost_snapshot in this step
PersistCommit(c) ==
    /\ pc[c] = "persist"
    /\ pc'[c] = "idle"
    /\ op[c] = "persist"
    /\ ret[c] # None
    /\ target[c] \in DOMAIN recipes

\* ------------------------------------------------------------------ C22
\* C22: no step of calculate_recipe_cost changes a table, and a successful
\* persist_cost_snapshot(R) changes only cost_price and updated_at of R:
\* R's other fields, every other recipe (R's sub-recipes and their cached
\* cost_price included), the ingredients, every ingredient line and every
\* sub-recipe link stay as they were.
C22_FrameEffect ==
    [][/\ ingredients' = ingredients
       /\ recipe_ingredients' = recipe_ingredients
       /\ recipe_recipes' = recipe_recipes
       /\ DOMAIN recipes' = DOMAIN recipes
       /\ \A r \in DOMAIN recipes :
             recipes'[r] # recipes[r] =>
                /\ \E c \in Callers : PersistCommit(c) /\ target[c] = r
                /\ recipes'[r] =
                      [recipes[r] EXCEPT
                          !.cost_price = recipes'[r].cost_price,
                          !.updated_at = recipes'[r].updated_at]]_vars

\* a parent has been persisted; its sub-recipe still has the cached
\* cost_price and timestamp it started with
C22_Witness ==
    /\ pc[1] = "idle"
    /\ op[1] = "persist"
    /\ result[1] # None
    /\ target[1] \in DOMAIN recipes
    /\ recipes[target[1]].updated_at = now
    /\ now > 0
    /\ recipes[target[1]].cost_price \notin {None, R(9)}
    /\ \E r \in Succ(target[1]) :
          /\ r # target[1]
          /\ recipes[r].cost_price = R(9)
          /\ recipes[r].updated_at = 0

\* ------------------------------------------------------------------ C23
\* C23: a top-level calculate_recipe_cost(R) with the default depth
\* parameters returns a CostingResult for R, with both breakdown lists and
\* missing_costs, if and only if R exists in the recipe store, whatever
\* lies below R; it returns nothing only when R is not found. (Checked
\* for the default _max_depth and for the small ones, which the chains
\* of the stores exceed.)
C23_ResultIffExists ==
    \A c \in Callers :
        (Done(c) /\ max_depth[c] \in MaxDepths) =>
            /\ ret[c] # None <=> target[c] \in DOMAIN recipes
            /\ ret[c] # None =>
                  /\ ret[c][1].recipe_id = target[c]
                  /\ {"breakdown", "sub_recipe_breakdown", "missing_costs"}
                        \subseteq DOMAIN ret[c][1]
            /\ op[c] = "calculate" => result[c] = ret[c]

\* the call for a recipe on a cycle has returned a result that names the
\* sub-recipe it could not cost
C23_Witness ==
    /\ Done(1)
    /\ op[1] = "calculate"
    /\ max_depth[1] = DefaultMaxDepth
    /\ target[1] \in Descendants(target[1])
    /\ result[1] # None
    /\ result[1][1].total_batch_cost = None
    /\ Len(result[1][1].sub_recipe_breakdown) = 1
    /\ result[1][1].missing_costs =
          <<SubRecipeNameEntry(result[1][1].sub_recipe_breakdown[1].recipe_name)>>

\* the missing_costs entries that the ingredient items and the first n
\* sub-recipe links of a result account for, in line and link order
IngredientEntries(items) ==
    LET open == SelectSeq(items, LAMBDA it : it.line_cost = None) IN
    [k \in 1 .. Len(open) |-> IngredientEntry(open[k].ingredient_name)]

RECURSIVE SubRecipeEntries(_, _)
SubRecipeEntries(r, n) ==
    IF n = 0 THEN <<>>
    ELSE LET rr == LinksOf(r.recipe_id)[n]
             before == SubRecipeEntries(r, n - 1)
         IN  IF ~ChildExists(rr)
             THEN Append(before, SubRecipeIdEntry(rr.child_recipe_id))
             ELSE IF \E k \in ItemOfLink(r, rr) :
                        r.sub_recipe_breakdown[k].line_cost = None
             THEN Append(before,
                         SubRecipeNameEntry(recipes[rr.child_recipe_id].name))
             ELSE before

\* ------------------------------------------------------------------ C24
\* C24: sub-recipe links are recursed into one after the other in their
\* stored position order, a child's computation completing before the
\* next starts; sub_recipe_breakdown lists its items in that order, and
\* missing_costs lists the ingredient names in line order and after them
\* the sub-recipe entries in link order.
C24_LinkOrder ==
    \A c \in Callers :
        /\ \A n \in 2 .. Len(frames[c]) :
              LET parent == frames[c][n]
                  child == frames[c][n - 1]
              IN  /\ parent.at = "wait"
                  /\ child.recipe_id =
                        LinksOf(parent.recipe_id)[parent.i].child_recipe_id
                  /\ child.depth = parent.depth + 1
                  /\ Len(parent.sub_recipe_breakdown) =
                        Len(SelectSeq(SubSeq(LinksOf(parent.recipe_id), 1,
                                             parent.i - 1), ChildExists))
        /\ ret[c] # None =>
              LET r == ret[c][1]
                  links == SelectSeq(LinksOf(r.recipe_id), ChildExists)
              IN  /\ Len(r.sub_recipe_breakdown) = Len(links)
                  /\ \A k \in 1 .. Len(links) :
                        r.sub_recipe_breakdown[k].link_id = links[k].id
                  /\ r.missing_costs =
                        IngredientEntries(r.breakdown)
                            \o SubRecipeEntries(r, Len(LinksOf(r.recipe_id)))

\* a result with two links, both costed without success, and an unpriced
\* ingredient line: three entries, the ingredient's first
C24_Witness ==
    /\ ret[1] # None
    /\ Len(ret[1][1].sub_recipe_breakdown) = 2
    /\ Len(ret[1][1].missing_costs) = 3
    /\ ret[1][1].missing_costs[1] = IngredientEntry(IngredientNames[2])
    /\ ret[1][1].missing_costs[2] =
          SubRecipeNameEntry(ret[1][1].sub_recipe_breakdown[1].recipe_name)
    /\ ret[1][1].missing_costs[3] =
          SubRecipeNameEntry(ret[1][1].sub_recipe_breakdown[2].recipe_name)
    /\ ret[1][1].sub_recipe_breakdown[1].link_id
          < ret[1][1].sub_recipe_breakdown[2].link_id

\* ------------------------------------------------------------------ C25
\* C25: every CostingResult has exactly one CostBreakdownItem per
\* ingredient line of the recipe and exactly one SubRecipeCostItem per
\* sub-recipe link, lines whose ingredient row no longer exists included.
C25_OneItemPerLine ==
    \A c \in Callers :
        ret[c] # None =>
            LET r == ret[c][1] IN
            /\ Len(r.breakdown) = Len(recipe_ingredients[r.recipe_id])
            /\ Len(r.sub_recipe_breakdown) = Len(LinksOf(r.recipe_id))

\* ------------------------------------------------------- RecipeService
\* The ingredient-line operations of recipe_service.py, each with its API
\* handler. Here a line carries its primary key and its sort_order, and
\* recipe_ingredients[r] is what get_recipe_ingredients(r) returns.
RecipeIngredientRow(id, ing, q, u, sort_order, bu, up) ==
    [id |-> id, ingredient_id |-> ing, quantity |-> q, unit |-> u,
     sort_order |-> sort_order, base_unit |-> bu, unit_price |-> up]

\* the primary keys the model hands out to lines and to forks
MaxRowId == NRecipes - 2
MaxForkId == NRecipes - 2

RowsOf(r) == {recipe_ingredients[r][k] : k \in 1 .. Len(recipe_ingredients[r])}
AllRows == UNION {RowsOf(r) : r \in AllIds}
MaxOf(S) == CHOOSE m \in S : \A x \in S : x <= m
NextRowId == IF AllRows = {} THEN 1 ELSE MaxOf({row.id : row \in AllRows}) + 1
NextRecipeId == MaxOf(DOMAIN recipes) + 1
RowFound(ri_id) == \E row \in AllRows : row.id = ri_id
OwnerOf(ri_id) == CHOOSE r \in AllIds : \E row \in RowsOf(r) : row.id = ri_id

\* lines 137-145: the rows of a set in sort_order; the order of rows with
\* equal sort_order is the database's choice
Ordered(S) ==
    {s \in [1 .. Cardinality(S) -> S] :
        \A i, j \in 1 .. Cardinality(S) :
            i < j => (s[i] # s[j] /\ s[i].sort_order <= s[j].sort_order)}

\* of a response the status code is kept
Response(code) == <<[status |-> code]>>

\* what the edit operations leave alone
EditFrame ==
    UNCHANGED <<ingredients, recipe_recipes, now, costing_stack, instance,
                pc, target, max_depth, frames, ret, memo, tasting>>

\* slip: the duplicate check is left out
existing_never(recipe_id, ingredient_id) == FALSE

\* lines 152-157: is there a line of this recipe for this ingredient
existing(recipe_id, ingredient_id) ==
    \E row \in RowsOf(recipe_id) : row.ingredient_id = ingredient_id

\* api/recipe_ingredients.py lines 40-59 with recipe_service.py 147-185
add_ingredient_to_recipe(c, recipe_id, data) ==
    /\ pc[c] = "idle"
    /\ op' = [op EXCEPT ![c] = "add_ingredient"]
    /\ IF recipe_id \notin DOMAIN recipes
       THEN /\ result' = [result EXCEPT ![c] = Response(404)]
            /\ UNCHANGED <<recipes, recipe_ingredients>>
       ELSE IF existing(recipe_id, data.ingredient_id)
       THEN /\ result' = [result EXCEPT ![c] = Response(409)]
            /\ UNCHANGED <<recipes, recipe_ingredients>>
       ELSE LET orders == {row.sort_order : row \in RowsOf(recipe_id)}
                max_order_result == IF orders = {} THEN 0 ELSE MaxOf(orders)
                recipe_ingredient == RecipeIngredientRow(
                    NextRowId, data.ingredient_id, data.quantity, data.unit,
                    max_order_result + 1, data.base_unit, data.unit_price)
            IN  /\ NextRowId <= MaxRowId
                /\ recipe_ingredients' \in
                      {[recipe_ingredients EXCEPT ![recipe_id] = s] :
                          s \in Ordered(RowsOf(recipe_id)
                                            \cup {recipe_ingredient})}
                /\ result' = [result EXCEPT ![c] = Response(201)]
                /\ UNCHANGED recipes
    /\ EditFrame

\* model_dump(exclude_unset=True) and setattr, lines 195-197
ApplyUpdate(row, data) ==
    [f \in DOMAIN row |-> IF f \in DOMAIN data THEN data[f] ELSE row[f]]

\* api/recipe_ingredients.py lines 66-80 with recipe_service.py 187-202
update_recipe_ingredient(c, ri_id, data) ==
    /\ pc[c] = "idle"
    /\ op' = [op EXCEPT ![c] = "update_ingredient"]
    /\ IF ~RowFound(ri_id)
       THEN /\ result' = [result EXCEPT ![c] = Response(404)]
            /\ UNCHANGED recipe_ingredients
       ELSE LET r == OwnerOf(ri_id) IN
            /\ recipe_ingredients' = [recipe_ingredients EXCEPT ![r] =
                  [k \in 1 .. Len(@) |->
                      IF @[k].id = ri_id THEN ApplyUpdate(@[k], data)
                      ELSE @[k]]]
            /\ result' = [result EXCEPT ![c] = Response(200)]
    /\ UNCHANGED recipes
    /\ EditFrame

\* api/recipe_ingredients.py lines 87-99 with recipe_service.py 204-212
remove_ingredient_from_recipe(c, ri_id) ==
    /\ pc[c] = "idle"
    /\ op' = [op EXCEPT ![c] = "remove_ingredient"]
    /\ IF ~RowFound(ri_id)
       THEN /\ result' = [result EXCEPT ![c] = Response(404)]
            /\ UNCHANGED recipe_ingredients
       ELSE /\ recipe_ingredients' = [recipe_ingredients EXCEPT
                  ![OwnerOf(ri_id)] =
                      SelectSeq(@, LAMBDA row : row.id # ri_id)]
            /\ result' = [result EXCEPT ![c] = Response(204)]
    /\ UNCHANGED recipes
    /\ EditFrame

\* the sort_order a row has after the loop of lines 218-222: the last
\* index (from 0) at which its id stands in ordered_ids, if any
Reordered(row, ordered_ids) ==
    LET at == {k \in 1 .. Len(ordered_ids) : ordered_ids[k] = row.id} IN
    IF at = {} THEN row ELSE [row EXCEPT !.sort_order = MaxOf(at) - 1]

\* api/recipe_ingredients.py lines 106-119 with recipe_service.py 214-225
reorder_recipe_ingredients(c, recipe_id, ordered_ids) ==
    /\ pc[c] = "idle"
    /\ op' = [op EXCEPT ![c] = "reorder_ingredients"]
    /\ IF recipe_id \notin DOMAIN recipes
       THEN /\ result' = [result EXCEPT ![c] = Response(404)]
            /\ UNCHANGED recipe_ingredients
       ELSE \E s \in Ordered({Reordered(row, ordered_ids) :
                                 row \in RowsOf(recipe_id)}) :
            /\ recipe_ingredients' =
                  [recipe_ingredients EXCEPT ![recipe_id] = s]
            /\ result' = [result EXCEPT ![c] = Response(200)]
    /\ UNCHANGED recipes
    /\ EditFrame

\* api/recipes.py lines 106-121 with recipe_service.py 83-133
fork_recipe(c, recipe_id) ==
    /\ pc[c] = "idle"
    /\ op' = [op EXCEPT ![c] = "fork_recipe"]
    /\ IF recipe_id \notin DOMAIN recipes
       THEN /\ result' = [result EXCEPT ![c] = Response(404)]
            /\ UNCHANGED <<recipes, recipe_ingredients>>
       ELSE LET original == recipes[recipe_id]
                forked == [name |-> original.name \o " (Fork)",
                           yield_quantity |-> original.yield_quantity,
                           cost_price |-> None,
                           updated_at |-> now]
                original_ingredients == recipe_ingredients[recipe_id]
            IN  /\ NextRecipeId <= MaxForkId
                /\ NextRowId + Len(original_ingredients) - 1 <= MaxRowId
                /\ recipes' = (NextRecipeId :> forked) @@ recipes
                /\ recipe_ingredients' = [recipe_ingredients EXCEPT
                      ![NextRecipeId] =
                          [k \in 1 .. Len(original_ingredients) |->
                              [original_ingredients[k] EXCEPT
                                  !.id = NextRowId + k - 1]]]
                /\ result' = [result EXCEPT ![c] = Response(201)]
    /\ EditFrame

\* the requests tried
AddData ==
    {[ingredient_id |-> i, quantity |-> R(2), unit |-> "g",
      base_unit |-> "g", unit_price |-> R(3)] : i \in DOMAIN ingredients}
UpdateData == {[quantity |-> R(5), unit_price |-> None]}
RowIdArgs == 1 .. MaxRowId
\* the recipe's own lines in reverse, and one id that may be another's
OrderedIds(recipe_id) ==
    LET own == recipe_ingredients[recipe_id] IN
    {[k \in 1 .. Len(own) |-> own[Len(own) + 1 - k].id], <<MaxRowId>>}

EditStores ==
    {[recipes |-> [r \in {1} |-> Recipe(r, R(2), None)],
      ingredients |-> [i \in {Ing.Flour, Ing.Sugar} |-> IngredientNames[i]],
      recipe_ingredients |-> [r \in AllIds |-> IF r = 1 THEN rows ELSE <<>>],
      recipe_recipes |-> [r \in AllIds |-> <<>>]] :
        rows \in {<<>>,
                  <<RecipeIngredientRow(1, Ing.Flour, R(2), "g", 1, "g", R(3))>>}}
EditInit == InitWith(EditStores)

AddIngredient == \E c \in Callers, r \in Roots, data \in AddData :
                    add_ingredient_to_recipe(c, r, data)
UpdateIngredient == \E c \in Callers, id \in RowIdArgs, data \in UpdateData :
                        update_recipe_ingredient(c, id, data)
RemoveIngredient == \E c \in Callers, id \in RowIdArgs :
                        remove_ingredient_from_recipe(c, id)
ReorderIngredients == \E c \in Callers, r \in Roots : \E ids \in OrderedIds(r) :
                        reorder_recipe_ingredients(c, r, ids)
ForkRecipe == \E c \in Callers, r \in Roots : fork_recipe(c, r)

EditNext ==
    \/ AddIngredient
    \/ UpdateIngredient
    \/ RemoveIngredient
    \/ ReorderIngredients
    \/ ForkRecipe
EditSpec == EditInit /\ [][EditNext]_vars


HasLineFor(r, i) ==
    \E k \in 1 .. Len(recipe_ingredients[r]) :
        recipe_ingredients[r][k].ingredient_id = i

NoDuplicateIngredient ==
    \A r \in AllIds : \A i, j \in 1 .. Len(recipe_ingredients[r]) :
        i # j => recipe_ingredients[r][i].ingredient_id
                     # recipe_ingredients[r][j].ingredient_id

C26_AddRejected ==
    \A c \in Callers, r \in DOMAIN recipes, data \in AddData :
        (add_ingredient_to_recipe(c, r, data)
            /\ HasLineFor(r, data.ingredient_id))
        => /\ result'[c] = Response(409)
           /\ recipe_ingredients' = recipe_ingredients

\* C26: through every sequence of add, update, remove, reorder and fork
\* calls no recipe has two lines for the same ingredient, and an add of an
\* ingredient the recipe already has answers 409 and leaves all lines as
\* they were.
C26_NoDuplicateLines == []NoDuplicateIngredient /\ [][C26_AddRejected]_vars

\* an add was answered 409 on a fork that carries a copied line
C26_Witness ==
    /\ op[1] = "add_ingredient"
    /\ result[1] = Response(409)
    /\ \E r \in DOMAIN recipes : r > 1 /\ recipe_ingredients[r] # <<>>


\* ------------------------------------------------------ TastingService
\* tasting_sessions holds the ids of the stored sessions, tasting_notes
\* the stored notes.
TastingNote(id, session_id, recipe_id, overall_rating) ==
    [id |-> id, session_id |-> session_id, recipe_id |-> recipe_id,
     overall_rating |-> overall_rating]

\* the primary keys the model hands out to sessions and to notes
MaxSessionId == NRecipes - 2
MaxNoteId == NRecipes - 2

NextSessionId ==
    IF tasting_sessions = {} THEN 1 ELSE MaxOf(tasting_sessions) + 1
NextNoteId ==
    IF tasting_notes = {} THEN 1
    ELSE MaxOf({note.id : note \in tasting_notes}) + 1

\* what the tasting operations leave alone
TastingFrame ==
    UNCHANGED <<store, now, costing_stack, instance, pc, target, max_depth,
                frames, ret, memo>>

\* api/tastings.py lines 30-37 with tasting_service.py 31-37
create_session(c) ==
    /\ pc[c] = "idle"
    /\ NextSessionId <= MaxSessionId
    /\ op' = [op EXCEPT ![c] = "create_session"]
    /\ tasting_sessions' = tasting_sessions \cup {NextSessionId}
    /\ result' = [result EXCEPT ![c] = Response(201)]
    /\ UNCHANGED tasting_notes
    /\ TastingFrame

\* api/tastings.py lines 100-114 with tasting_service.py 75-83. The model
\* classes declare no cascade, the migration declares ON DELETE CASCADE:
\* what becomes of the session's notes is the database's doing. They go
\* with the session, or they stay behind, or the delete is refused.
delete_session(c, session_id) ==
    /\ pc[c] = "idle"
    /\ op' = [op EXCEPT ![c] = "delete_session"]
    /\ IF session_id \notin tasting_sessions
       THEN /\ result' = [result EXCEPT ![c] = Response(404)]
            /\ UNCHANGED tasting
       ELSE LET notes == {note \in tasting_notes :
                              note.session_id = session_id}
            IN  \/ /\ tasting_sessions' = tasting_sessions \ {session_id}
                   /\ tasting_notes' = tasting_notes \ notes
                   /\ result' = [result EXCEPT ![c] = Response(204)]
                \/ /\ notes # {}
                   /\ tasting_sessions' = tasting_sessions \ {session_id}
                   /\ UNCHANGED tasting_notes
                   /\ result' = [result EXCEPT ![c] = Response(204)]
                \/ /\ notes # {}
                   /\ UNCHANGED tasting
                   /\ result' = [result EXCEPT ![c] = Response(500)]
    /\ TastingFrame

\* slip: the duplicate check is left out
existing_note_never(session_id, recipe_id) == FALSE

\* lines 120-126: is there a note for this recipe in this session
existing_note(session_id, recipe_id) ==
    \E note \in tasting_notes :
        note.session_id = session_id /\ note.recipe_id = recipe_id

\* api/tastings.py lines 137-155 with tasting_service.py 105-137
add_note(c, session_id, data) ==
    /\ pc[c] = "idle"
    /\ op' = [op EXCEPT ![c] = "add_note"]
    /\ IF \/ session_id \notin tasting_sessions
          \/ data.recipe_id \notin DOMAIN recipes
          \/ existing_note(session_id, data.recipe_id)
       THEN /\ result' = [result EXCEPT ![c] = Response(400)]
            /\ UNCHANGED tasting_notes
       ELSE /\ NextNoteId <= MaxNoteId
            /\ tasting_notes' = tasting_notes \cup
                  {TastingNote(NextNoteId, session_id, data.recipe_id,
                               data.overall_rating)}
            /\ result' = [result EXCEPT ![c] = Response(201)]
    /\ UNCHANGED tasting_sessions
    /\ TastingFrame

\* the handlers of one note: found, and in the session of the path
NoteOf(session_id, note_id) ==
    {note \in tasting_notes :
        note.id = note_id /\ note.session_id = session_id}

\* api/tastings.py lines 175-191 with tasting_service.py 152-168
update_note(c, session_id, note_id, data) ==
    /\ pc[c] = "idle"
    /\ op' = [op EXCEPT ![c] = "update_note"]
    /\ IF NoteOf(session_id, note_id) = {}
       THEN /\ result' = [result EXCEPT ![c] = Response(404)]
            /\ UNCHANGED tasting_notes
       ELSE /\ tasting_notes' =
                  {IF note.id = note_id THEN ApplyUpdate(note, data)
                   ELSE note : note \in tasting_notes}
            /\ result' = [result EXCEPT ![c] = Response(200)]
    /\ UNCHANGED tasting_sessions
    /\ TastingFrame

\* api/tastings.py lines 194-209 with tasting_service.py 170-178
delete_note(c, session_id, note_id) ==
    /\ pc[c] = "idle"
    /\ op' = [op EXCEPT ![c] = "delete_note"]
    /\ IF NoteOf(session_id, note_id) = {}
       THEN /\ result' = [result EXCEPT ![c] = Response(404)]
            /\ UNCHANGED tasting_notes
       ELSE /\ tasting_notes' =
                  {note \in tasting_notes : note.id # note_id}
            /\ result' = [result EXCEPT ![c] = Response(204)]
    /\ UNCHANGED tasting_sessions
    /\ TastingFrame

\* the requests tried
SessionIdArgs == 1 .. MaxSessionId + 1
NoteIdArgs == 1 .. MaxNoteId
NoteCreateData ==
    {[recipe_id |-> r, overall_rating |-> 4] : r \in Roots}
NoteUpdateData == {[overall_rating |-> 5]}

TastingStores ==
    {[recipes |-> [r \in 1 .. 2 |-> Recipe(r, R(2), None)],
      ingredients |-> [i \in {Ing.Flour} |-> IngredientNames[i]],
      recipe_ingredients |-> [r \in AllIds |-> <<>>],
      recipe_recipes |-> [r \in AllIds |-> <<>>]]}
TastingInit == InitWith(TastingStores)

CreateSession == \E c \in Callers : create_session(c)
DeleteSession == \E c \in Callers, s \in SessionIdArgs : delete_session(c, s)
AddNote == \E c \in Callers, s \in SessionIdArgs, data \in NoteCreateData :
              add_note(c, s, data)
UpdateNote ==
    \E c \in Callers, s \in SessionIdArgs, n \in NoteIdArgs,
       data \in NoteUpdateData : update_note(c, s, n, data)
DeleteNote == \E c \in Callers, s \in SessionIdArgs, n \in NoteIdArgs :
                 delete_note(c, s, n)

TastingNext ==
    \/ CreateSession
    \/ DeleteSession
    \/ AddNote
    \/ UpdateNote
    \/ DeleteNote
TastingSpec == TastingInit /\ [][TastingNext]_vars

HasNote(session_id, recipe_id) ==
    \E note \in tasting_notes :
        note.session_id = session_id /\ note.recipe_id = recipe_id

OneNotePerRecipe ==
    \A m, n \in tasting_notes :
        (m.session_id = n.session_id /\ m.recipe_id = n.recipe_id) => m = n

C27_AddAnswer ==
    \A c \in Callers, s \in SessionIdArgs, data \in NoteCreateData :
        add_note(c, s, data)
        => IF \/ HasNote(s, data.recipe_id)
              \/ s \notin tasting_sessions
              \/ data.recipe_id \notin DOMAIN recipes
           THEN /\ result'[c] = Response(400)
                /\ tasting_notes' = tasting_notes
           ELSE /\ result'[c] = Response(201)
                /\ HasNote(s, data.recipe_id)'

C27_DeleteFrees ==
    \A c \in Callers, s \in SessionIdArgs, n \in NoteIdArgs :
        (delete_note(c, s, n) /\ result'[c] = Response(204))
        => \A note \in NoteOf(s, n) : ~HasNote(s, note.recipe_id)'

\* C27: through every sequence of add_note, update_note, delete_note and
\* delete_session calls no session has two notes for one recipe; an
\* add_note for a pair that has a note, for an unknown session or for an
\* unknown recipe answers 400 and leaves the notes as they were; deleting
\* a note leaves its pair without a note, and an add_note for a pair
\* without a note is accepted.
C27_OneNotePerRecipe ==
    /\ []OneNotePerRecipe
    /\ [][C27_AddAnswer /\ C27_DeleteFrees]_vars

\* an add_note was answered 400 while a session held two notes, one of
\* them updated
C27_Witness ==
    /\ op[1] = "add_note"
    /\ result[1] = Response(400)
    /\ \E m, n \in tasting_notes :
        m.id # n.id /\ m.session_id = n.session_id
            /\ m.overall_rating # n.overall_rating


\* ------------------------------------------------------------------ C28
Priced(items) == \A k \in 1 .. Len(items) : items[k].line_cost # None

\* C28: in every returned CostingResult with a total_batch_cost, every
\* item of breakdown and of sub_recipe_breakdown has a line_cost, and the
\* total is the sum of the ingredient line costs plus the sum of the
\* sub-recipe line costs, each line counted once.
C28_TotalIsSum ==
    \A c \in Callers :
        (ret[c] # None /\ ret[c][1].total_batch_cost # None) =>
            LET r == ret[c][1] IN
            /\ Priced(r.breakdown)
            /\ Priced(r.sub_recipe_breakdown)
            /\ r.total_batch_cost =
                  RAdd(SumLineCosts(r.breakdown, Len(r.breakdown)),
                       SumLineCosts(r.sub_recipe_breakdown,
                                    Len(r.sub_recipe_breakdown)))

\* a result with a total over ingredient lines and two sub-recipe lines,
\* all of them with an amount
C28_Witness ==
    /\ Done(1)
    /\ ret[1] # None
    /\ ret[1][1].total_batch_cost # None
    /\ Len(ret[1][1].breakdown) >= 1
    /\ Len(ret[1][1].sub_recipe_breakdown) >= 2
    /\ \A k \in 1 .. Len(ret[1][1].sub_recipe_breakdown) :
          RPos(ret[1][1].sub_recipe_breakdown[k].line_cost)
    /\ \A k \in 1 .. Len(ret[1][1].breakdown) :
          RPos(ret[1][1].breakdown[k].line_cost)


\* ------------------------------------------------------------------ C29
\* C29: the CostingResult of a recipe does not depend on the cached
\* cost_price of the recipe or of any recipe below it: two calculations
\* for the same recipe and _max_depth give the same result, whatever
\* snapshots were persisted before, between or after them and whether the
\* cache started absent or stale.
C29_CacheIndependent ==
    \A c1, c2 \in Callers :
        (/\ Done(c1) /\ Done(c2)
         /\ target[c1] = target[c2]
         /\ max_depth[c1] = max_depth[c2])
            => ret[c1] = ret[c2]

\* two results for a parent are held, the stale cache of its child has
\* been rewritten with the child's computed cost, its own is stale still
C29_Witness ==
    /\ Done(1) /\ Done(2)
    /\ op[1] = "calculate" /\ op[2] = "calculate"
    /\ target[1] = target[2]
    /\ max_depth[1] = max_depth[2]
    /\ ret[1] # None
    /\ ret[1][1].sub_recipe_breakdown # <<>>
    /\ \E r \in Descendants(target[1]) \ {target[1]} :
          /\ recipes[r].updated_at > 0
          /\ recipes[r].cost_price \notin {None, R(9)}
          /\ recipes[target[1]].cost_price = R(9)


\* ------------------------------------------------------------------ C30
\* Two callers of persist_cost_snapshot, each on its own CostingService,
\* their steps interleaved, while another client may set the unit_price of
\* an ingredient line (update_recipe_ingredient, lines 187-202).
PriceData == {[unit_price |-> R(5)]}

PriceChange(recipe_id, k, data) ==
    /\ recipe_id \in DOMAIN recipes
    /\ k \in 1 .. Len(recipe_ingredients[recipe_id])
    /\ recipe_ingredients' = [recipe_ingredients EXCEPT ![recipe_id][k] =
            ApplyUpdate(@, data)]
    /\ UNCHANGED <<recipes, ingredients, recipe_recipes, now, costing_stack,
                   instance, pc, op, target, max_depth, frames, ret, result,
                   memo, tasting>>

RaceStores ==
    {Store("pair", R(1), "portion", Const(R(2)), Const("priced"), R(9))}
RaceInit == TwoInit(RaceStores) /\ instance = [c \in Callers |-> c]

\* the steps of one caller's call, once started
RaceStep(c) ==
    \/ CallEntry(c)
    \/ Body(c)
    \/ SubRecipe(c)
    \/ AfterChild(c)
    \/ Aggregate(c)
    \/ PersistWrite(c)

SetPrice == \E r \in RecipeIds, k \in 1 .. 2, data \in PriceData :
               PriceChange(r, k, data)

RaceNext == Persist \/ WalkStep \/ Write \/ SetPrice

\* each request is served by a thread of its own, which is scheduled
RaceSpec ==
    RaceInit /\ [][RaceNext]_vars /\ \A c \in Callers : WF_vars(RaceStep(c))

GraphUnchanged ==
    \E s \in RaceStores : recipe_ingredients = s.recipe_ingredients

\* caller c's persist_cost_snapshot has returned the written row
Persisted(c) ==
    /\ pc[c] = "idle"
    /\ op[c] = "persist"
    /\ result[c] # None

C30_Stored ==
    \A c \in Callers :
        Persisted(c) =>
            /\ GraphUnchanged =>
                  recipes[target[c]].cost_price = ret[c][1].cost_per_portion
            /\ result[c][1].updated_at = now =>
                  recipes[target[c]].cost_price = ret[c][1].cost_per_portion

C30_Write ==
    \A c \in Callers :
        (/\ pc[c] = "persist" /\ pc'[c] = "idle"
         /\ ret[c] # None
         /\ target[c] \in DOMAIN recipes)
        => recipes'[target[c]].cost_price = ret[c][1].cost_per_portion

C30_Completes ==
    \A c \in Callers : (pc[c] \in {"costing", "persist"}) ~> (pc[c] = "idle")

====
